---- MODULE Spec2Model ----
(***************************************************************************)
(* A model of cppinterpreter.cpp: Lexer, Parser, the two Statement kinds,  *)
(* Interpreter and main.  Text (source code, lexemes, payloads, input      *)
(* lines, variable values) is a sequence of one-character strings.         *)
(* Positions and indices are 0-based as in the C++ code; the k-th          *)
(* character of s (0-based) is s[k+1].                                     *)
(***************************************************************************)
EXTENDS Integers, Sequences, FiniteSets, TLC

VARIABLES
    input,          \* Lexer::input
    pos,            \* Lexer::pos
    tokens,         \* tokenize()'s vector, then main's tokens / Parser::tokens
    lexemes,        \* for each token, the slice of input next_token consumed for it
    current_index,  \* Parser::current_index
    statements,     \* parse()'s local vector
    program,        \* main's program, the argument of Interpreter::execute
    variables,      \* Interpreter::execute's unordered_map
    ip,             \* number of statements the for loop of execute has run
    input_str,      \* InStatement::execute's local: the line std::getline gave
    lines_read,     \* number of lines extracted from std::cin
    cout,           \* lines written to std::cout
    cerr,           \* lines written to std::cerr
    exception,      \* what() of the exception in flight, or "none"
    pc              \* where main is: tokenize, parse, execute, done, terminated

vars == << input, pos, tokens, lexemes, current_index, statements, program,
           variables, ip, input_str, lines_read, cout, cerr, exception, pc >>

lexerVars == << input, pos, tokens, lexemes >>
parserVars == << current_index, statements >>
execVars == << variables, ip, input_str, lines_read, cout, cerr >>

----------------------------------------------------------------------------
(* Bounds of the model *)

\* longest source text, counted in pieces of Pieces
MaxPieces == 4
\* longest source text for which the end of tokenize's loop is checked
MaxFairPieces == 3
\* longest token sequence handed to the parser on its own
MaxTokens == 4
\* longest statement list handed to the interpreter on its own
MaxStmts == 3
\* most program fragments in a source run through main
MaxFrags == 3

----------------------------------------------------------------------------
(* Characters and <cctype> *)

Min(a, b) == IF a < b THEN a ELSE b

Letters ==
    { "a","b","c","d","e","f","g","h","i","j","k","l","m",
      "n","o","p","q","r","s","t","u","v","w","x","y","z",
      "A","B","C","D","E","F","G","H","I","J","K","L","M",
      "N","O","P","Q","R","S","T","U","V","W","X","Y","Z" }

Digits == { "0","1","2","3","4","5","6","7","8","9" }

isspace(c) == c \in { " ", "\t", "\n", "\r", "\f" }
isalpha(c) == c \in Letters
isalnum(c) == c \in Letters \cup Digits

\* std::string::substr(p, n): at most n characters from position p
substr(s, p, n) == SubSeq(s, p + 1, Min(p + n, Len(s)))

----------------------------------------------------------------------------
(* Lexer *)

Token(type, value) == [type |-> type, value |-> value]

RECURSIVE skip_whitespace(_, _)
skip_whitespace(s, p) ==
    IF p < Len(s) /\ isspace(s[p + 1]) THEN skip_whitespace(s, p + 1) ELSE p

\* the while loop of the string-literal rule: the position of the closing
\* quote, or Len(s) when there is none
RECURSIVE ScanQuote(_, _)
ScanQuote(s, p) ==
    IF p < Len(s) /\ s[p + 1] # "\"" THEN ScanQuote(s, p + 1) ELSE p

\* the while loop of the identifier rule
RECURSIVE ScanAlnum(_, _)
ScanAlnum(s, p) ==
    IF p < Len(s) /\ isalnum(s[p + 1]) THEN ScanAlnum(s, p + 1) ELSE p

\* a variant that tries "int" before "in"
KeywordRulesIntFirst ==
    << [text |-> <<"o","u","t">>,     type |-> "OUT"],
       [text |-> <<">",">">>,         type |-> "GREATER_THAN"],
       [text |-> <<"i","n","t">>,     type |-> "INT_KEYWORD"],
       [text |-> <<"i","n">>,         type |-> "IN"],
       [text |-> <<"<","<">>,         type |-> "LESS_THAN"],
       [text |-> <<"s","t","o","p">>, type |-> "STOP"] >>

\* the fixed-text rules of next_token, in the order the code tries them
KeywordRules ==
    << [text |-> <<"o","u","t">>,     type |-> "OUT"],
       [text |-> <<">",">">>,         type |-> "GREATER_THAN"],
       [text |-> <<"i","n">>,         type |-> "IN"],
       [text |-> <<"<","<">>,         type |-> "LESS_THAN"],
       [text |-> <<"s","t","o","p">>, type |-> "STOP"],
       [text |-> <<"i","n","t">>,     type |-> "INT_KEYWORD"] >>

RuleMatches(s, p, k) ==
    substr(s, p, Len(KeywordRules[k].text)) = KeywordRules[k].text

\* the first rule whose text is at position p, or 0
MatchKeyword(s, p) ==
    IF \E k \in DOMAIN KeywordRules : RuleMatches(s, p, k)
    THEN CHOOSE k \in DOMAIN KeywordRules :
            /\ RuleMatches(s, p, k)
            /\ \A j \in 1..(k - 1) : ~RuleMatches(s, p, j)
    ELSE 0

\* a variant that drops the last character of the payload
StringLiteralValueShort(s, start, end) == substr(s, start, end - start - 1)

\* the payload of a string literal whose text starts at start and whose
\* scan stopped at end
StringLiteralValue(s, start, end) == substr(s, start, end - start)

\* a variant that does not skip whitespace
TokenStartNoSkip(s, p0) == p0

\* where the token that next_token returns begins
TokenStart(s, p0) == skip_whitespace(s, p0)

\* next_token() called with pos = p0: the token it returns, and pos afterwards
next_token(s, p0) ==
    LET p == TokenStart(s, p0)
        k == MatchKeyword(s, p)
    IN  IF p >= Len(s)
        THEN [token |-> Token("END_STATEMENT", <<>>), pos |-> p]
        ELSE IF k # 0
        THEN [token |-> Token(KeywordRules[k].type, KeywordRules[k].text),
              pos   |-> p + Len(KeywordRules[k].text)]
        ELSE IF s[p + 1] = "\""
        THEN LET end == ScanQuote(s, p + 1)
             IN  [token |-> Token("STRING_LITERAL", StringLiteralValue(s, p + 1, end)),
                  pos   |-> end + 1]
        ELSE IF isalpha(s[p + 1])
        THEN LET end == ScanAlnum(s, p)
             IN  [token |-> Token("VAR_NAME", substr(s, p, end - p)),
                  pos   |-> end]
        ELSE IF s[p + 1] = ";"
        THEN [token |-> Token("END_STATEMENT", <<";">>), pos |-> p + 1]
        ELSE [token |-> Token("UNKNOWN", <<>>), pos |-> p + 1]

\* the characters of s that next_token(s, p0) consumed for its token,
\* leading whitespace left out
Lexeme(s, p0) ==
    LET p == TokenStart(s, p0)
    IN  substr(s, p, next_token(s, p0).pos - p)

\* tokenize() as a function of the source text: whether it returned, and
\* the tokens it had collected
RECURSIVE TokenizeFrom(_, _, _)
TokenizeFrom(s, p, acc) ==
    IF p < Len(s)
    THEN LET r == next_token(s, p)
         IN  IF r.token.type # "UNKNOWN"
             THEN TokenizeFrom(s, r.pos, Append(acc, r.token))
             ELSE [ok |-> FALSE, tokens |-> acc]
    ELSE [ok |-> TRUE, tokens |-> acc]

tokenize(s) == TokenizeFrom(s, 0, <<>>)

----------------------------------------------------------------------------
(* Statements *)

OutStatement(output_targets) ==
    [kind |-> "out", output_targets |-> output_targets, var_name |-> <<>>]

InStatement(var_name) ==
    [kind |-> "in", output_targets |-> <<>>, var_name |-> var_name]

\* std::unordered_map<std::string, std::string>, just constructed
EmptyMap == [k \in {} |-> <<>>]

\* variables[key] = value
MapAssign(m, key, value) ==
    [k \in DOMAIN m \cup {key} |-> IF k = key THEN value ELSE m[k]]

\* a variant that looks every target up with operator[], which inserts an
\* empty value for a missing key
OutStatementExecuteInserting(stmt, m) ==
    LET keys == { stmt.output_targets[i] : i \in DOMAIN stmt.output_targets }
        m2 == [k \in DOMAIN m \cup keys |-> IF k \in DOMAIN m THEN m[k] ELSE <<>>]
    IN  [lines |-> [i \in DOMAIN stmt.output_targets |-> m2[stmt.output_targets[i]]],
         variables |-> m2]

\* a variant that prints every target as a literal
OutLineLiteral(target, m) == target

\* the line one iteration of OutStatement::execute's loop writes
OutLine(target, m) == IF target \in DOMAIN m THEN m[target] ELSE target

RECURSIVE OutLoopLines(_, _, _)
OutLoopLines(targets, i, m) ==
    IF i > Len(targets) THEN <<>>
    ELSE <<OutLine(targets[i], m)>> \o OutLoopLines(targets, i + 1, m)

\* OutStatement::execute: the lines written to std::cout and the map afterwards
OutStatementExecute(stmt, m) ==
    [lines |-> OutLoopLines(stmt.output_targets, 1, m), variables |-> m]

----------------------------------------------------------------------------
(* std::stoi and std::to_string *)

INT_MAX == 2147483647
INT_MIN == -INT_MAX - 1

DigitChars == << "0","1","2","3","4","5","6","7","8","9" >>
DigitValue(c) == (CHOOSE i \in 1..10 : DigitChars[i] = c) - 1

\* strtol's digit loop, accumulating the negated magnitude so that INT_MIN
\* is representable; lim is the least value the result may have
RECURSIVE StoiDigits(_, _, _, _)
StoiDigits(s, p, acc, lim) ==
    IF p < Len(s) /\ s[p + 1] \in Digits
    THEN LET d == DigitValue(s[p + 1])
             cutoff == -(INT_MAX \div 10)
         IN  IF acc < cutoff \/ (acc = cutoff /\ d > (cutoff * 10) - lim)
             THEN [in_range |-> FALSE, value |-> 0]
             ELSE StoiDigits(s, p + 1, acc * 10 - d, lim)
    ELSE [in_range |-> TRUE, value |-> acc]

\* std::stoi(str): leading whitespace, an optional sign, decimal digits;
\* whatever follows the digits is ignored
stoi(str) ==
    LET p == skip_whitespace(str, 0)
        signed == p < Len(str) /\ str[p + 1] \in {"+", "-"}
        neg == signed /\ str[p + 1] = "-"
        q == IF signed THEN p + 1 ELSE p
        r == StoiDigits(str, q, 0, IF neg THEN INT_MIN ELSE -INT_MAX)
    IN  IF ~(q < Len(str) /\ str[q + 1] \in Digits)
        THEN [status |-> "invalid_argument", value |-> 0]
        ELSE IF ~r.in_range
        THEN [status |-> "out_of_range", value |-> 0]
        ELSE [status |-> "ok", value |-> IF neg THEN r.value ELSE -r.value]

\* the decimal digits of -n, for n <= 0
RECURSIVE NegDigits(_)
NegDigits(n) ==
    LET d == (10 - (n % 10)) % 10
        rest == (n + d) \div 10
    IN  IF rest = 0 THEN <<DigitChars[d + 1]>>
        ELSE Append(NegDigits(rest), DigitChars[d + 1])

\* std::to_string(int)
to_string(n) == IF n < 0 THEN <<"-">> \o NegDigits(n) ELSE NegDigits(-n)

Diagnostic == "Invalid input. Please enter an integer."

\* a variant that leaves the variable unbound on bad input
InStatementExecuteNoDefault(stmt, m, line) ==
    LET r == stoi(line)
    IN  IF r.status = "ok"
        THEN [thrown |-> "none", variables |-> MapAssign(m, stmt.var_name, to_string(r.value)),
              cerr |-> <<>>]
        ELSE [thrown |-> "none", variables |-> m, cerr |-> <<Diagnostic>>]

\* InStatement::execute after getline has put line into input_str: the
\* exception that leaves it (or "none"), the map afterwards, and the lines
\* written to std::cerr
InStatementExecute(stmt, m, line) ==
    LET r == stoi(line)
    IN  IF r.status = "ok"
        THEN [thrown |-> "none", variables |-> MapAssign(m, stmt.var_name, to_string(r.value)),
              cerr |-> <<>>]
        ELSE IF r.status = "invalid_argument"
        THEN [thrown |-> "none", variables |-> MapAssign(m, stmt.var_name, <<"0">>),
              cerr |-> <<Diagnostic>>]
        ELSE [thrown |-> "stoi", variables |-> m, cerr |-> <<>>]

----------------------------------------------------------------------------
(* Parser *)

RECURSIVE OutLoop(_, _, _)
OutLoop(toks, i, targets) ==
    IF i < Len(toks)
       /\ toks[i + 1].type \in {"GREATER_THAN", "STRING_LITERAL", "VAR_NAME"}
    THEN IF toks[i + 1].type = "GREATER_THAN"
         THEN OutLoop(toks, i + 1, targets)
         ELSE OutLoop(toks, i + 1, Append(targets, toks[i + 1].value))
    ELSE [index |-> i, targets |-> targets]

\* a variant that leaves a following stop for the top-level scan
parse_out_statement_keeps_stop(toks, ci) ==
    LET r == OutLoop(toks, ci + 1, <<>>)
    IN  [stmt |-> OutStatement(r.targets), index |-> r.index]

\* parse_out_statement() called with current_index = ci
parse_out_statement(toks, ci) ==
    LET r == OutLoop(toks, ci + 1, <<>>)
        stop == r.index < Len(toks) /\ toks[r.index + 1].type = "STOP"
    IN  [stmt |-> OutStatement(r.targets),
         index |-> IF stop THEN r.index + 1 ELSE r.index]

\* a variant that gives up on a malformed statement without throwing
parse_in_statement_lenient(toks, ci) ==
    LET i == ci + 1
        lt == i < Len(toks) /\ toks[i + 1].type = "LESS_THAN"
        var == lt /\ i + 1 < Len(toks) /\ toks[i + 2].type = "VAR_NAME"
    IN  [thrown |-> "none",
         stmt   |-> InStatement(IF var THEN toks[i + 2].value ELSE <<>>),
         index  |-> IF var THEN i + 2 ELSE IF lt THEN i + 1 ELSE i]

\* parse_in_statement() called with current_index = ci
parse_in_statement(toks, ci) ==
    LET i == ci + 1
        lt == i < Len(toks) /\ toks[i + 1].type = "LESS_THAN"
        var == lt /\ i + 1 < Len(toks) /\ toks[i + 2].type = "VAR_NAME"
    IN  IF var
        THEN [thrown |-> "none", stmt |-> InStatement(toks[i + 2].value), index |-> i + 2]
        ELSE [thrown |-> "Invalid 'in' statement", stmt |-> InStatement(<<>>),
              index |-> IF lt THEN i + 1 ELSE i]

----------------------------------------------------------------------------
(* The inputs the specifications draw from *)

SeqsUpTo(S, n) == UNION { [1..k -> S] : k \in 0..n }

RECURSIVE Flatten(_)
Flatten(ss) == IF ss = <<>> THEN <<>> ELSE Head(ss) \o Flatten(Tail(ss))

\* pieces of source text: every keyword and operator, a quote, a terminator,
\* whitespace, letters, a digit, and a character no rule accepts
Pieces ==
    { <<"o","u","t">>, <<"i","n">>, <<"s","t","o","p">>, <<">",">">>, <<"<","<">>,
      <<"\"">>, <<";">>, <<" ">>, <<"a">>, <<"t">>, <<"1">>, <<"#">> }

LexSources == { Flatten(ps) : ps \in SeqsUpTo(Pieces, MaxPieces) }

FairLexSources == { Flatten(ps) : ps \in SeqsUpTo(Pieces, MaxFairPieces) }

\* tokens of every type the parser can be handed
ParseTokens ==
    { Token("OUT", <<"o","u","t">>), Token("IN", <<"i","n">>),
      Token("GREATER_THAN", <<">",">">>), Token("LESS_THAN", <<"<","<">>),
      Token("STRING_LITERAL", <<"h","i">>), Token("VAR_NAME", <<"a">>),
      Token("VAR_NAME", <<"b">>), Token("STOP", <<"s","t","o","p">>),
      Token("END_STATEMENT", <<";">>), Token("INT_KEYWORD", <<"i","n","t">>) }

ParseInputs == SeqsUpTo(ParseTokens, MaxTokens)

\* statements to execute: out with no target, with a literal, with a name
\* that may be bound, with both; in for two names
ExecStatements ==
    { OutStatement(<<>>), OutStatement(<< <<"a">> >>),
      OutStatement(<< <<"h","i">>, <<"a">>, <<"b">> >>),
      InStatement(<<"a">>), InStatement(<<"b">>) }

ExecInputs == SeqsUpTo(ExecStatements, MaxStmts)

\* lines std::getline can deliver: integers, text, an empty line, digits
\* followed by text, signs, leading zeros and whitespace, and digit strings
\* at and beyond both ends of int
Lines ==
    { <<"4","2">>, <<"a","b","c">>, <<>>, <<"1","2","a">>, <<"-","5">>,
      <<"0","0","7">>, <<" ","+","3">>, <<"-">>,
      <<"2","1","4","7","4","8","3","6","4","7">>,
      <<"2","1","4","7","4","8","3","6","4","8">>,
      <<"-","2","1","4","7","4","8","3","6","4","8">>,
      <<"-","2","1","4","7","4","8","3","6","4","9">>,
      <<"9","9","9","9","9","9","9","9","9","9","9">> }

\* what std::getline(std::cin, input_str) does: a line is extracted, or the
\* stream is at its end and input_str is left empty
GetlineOutcomes ==
    { [eof |-> FALSE, line |-> l] : l \in Lines } \cup { [eof |-> TRUE, line |-> <<>>] }

\* fragments of program text for runs of main
Fragments ==
    { <<"o","u","t"," ",">",">"," ","\"","h","i","\"",";"," ">>,
      <<"i","n"," ","<","<"," ","a",";"," ">>,
      <<"o","u","t"," ",">",">"," ","a",";">>,
      <<"i","n"," ","a",";">>,
      <<"i","n"," ","<","<"," ","\"","a","\"">>,
      <<"o","u","t"," ",">",">"," ","\"","a","\""," ","b"," ","s","t","o","p"," ">>,
      <<"#">> }

MainSources == { Flatten(fs) : fs \in SeqsUpTo(Fragments, MaxFrags) }

----------------------------------------------------------------------------
(* Initial states *)

\* main before Lexer lexer(source_code)
InitMain(src) ==
    /\ input = src
    /\ pos = 0
    /\ tokens = <<>>
    /\ lexemes = <<>>
    /\ current_index = 0
    /\ statements = <<>>
    /\ program = <<>>
    /\ variables = EmptyMap
    /\ ip = 0
    /\ input_str = <<>>
    /\ lines_read = 0
    /\ cout = <<>>
    /\ cerr = <<>>
    /\ exception = "none"
    /\ pc = "tokenize"

Init == \E src \in MainSources : InitMain(src)

InitLex == \E src \in LexSources : InitMain(src)

InitLexFair == \E src \in FairLexSources : InitMain(src)

\* Parser parser(tokens) for a token sequence of any make
InitParse ==
    /\ input = <<>>
    /\ pos = 0
    /\ tokens \in ParseInputs
    /\ lexemes = <<>>
    /\ current_index = 0
    /\ statements = <<>>
    /\ program = <<>>
    /\ variables = EmptyMap
    /\ ip = 0
    /\ input_str = <<>>
    /\ lines_read = 0
    /\ cout = <<>>
    /\ cerr = <<>>
    /\ exception = "none"
    /\ pc = "parse"

\* interpreter.execute(program) for a statement list of any make
InitExec ==
    /\ input = <<>>
    /\ pos = 0
    /\ tokens = <<>>
    /\ lexemes = <<>>
    /\ current_index = 0
    /\ statements = <<>>
    /\ program \in ExecInputs
    /\ variables = EmptyMap
    /\ ip = 0
    /\ input_str = <<>>
    /\ lines_read = 0
    /\ cout = <<>>
    /\ cerr = <<>>
    /\ exception = "none"
    /\ pc = "execute"

----------------------------------------------------------------------------
(* Lexer::tokenize *)

\* one iteration of tokenize's loop that pushes a token
LexToken ==
    /\ pc = "tokenize"
    /\ pos < Len(input)
    /\ LET r == next_token(input, pos)
       IN  /\ r.token.type # "UNKNOWN"
           /\ tokens' = Append(tokens, r.token)
           /\ lexemes' = Append(lexemes, Lexeme(input, pos))
           /\ pos' = r.pos
    /\ UNCHANGED << input, parserVars, program, execVars, exception, pc >>

\* one iteration of tokenize's loop that throws: nothing in main catches
LexThrow ==
    /\ pc = "tokenize"
    /\ pos < Len(input)
    /\ LET r == next_token(input, pos)
       IN  /\ r.token.type = "UNKNOWN"
           /\ pos' = r.pos
    /\ tokens' = <<>>
    /\ lexemes' = <<>>
    /\ exception' = "Unknown token encountered"
    /\ pc' = "terminated"
    /\ UNCHANGED << input, parserVars, program, execVars >>

\* tokenize returns; main constructs the Parser and calls parse
LexReturn ==
    /\ pc = "tokenize"
    /\ pos >= Len(input)
    /\ current_index' = 0
    /\ statements' = <<>>
    /\ pc' = "parse"
    /\ UNCHANGED << lexerVars, program, execVars, exception >>

----------------------------------------------------------------------------
(* Parser::parse *)

AtToken(type) ==
    /\ pc = "parse"
    /\ current_index < Len(tokens)
    /\ tokens[current_index + 1].type = type

\* a variant in which the statements parsed so far are run after a throw
ParseThrowRunsPrefix(what) ==
    /\ exception' = what
    /\ program' = statements
    /\ statements' = <<>>
    /\ pc' = "execute"

\* an exception leaves parse: its vector is destroyed, main's program is
\* never initialised, nothing in main catches
ParseThrow(what) ==
    /\ exception' = what
    /\ program' = program
    /\ statements' = <<>>
    /\ pc' = "terminated"

ParseOut ==
    /\ AtToken("OUT")
    /\ LET r == parse_out_statement(tokens, current_index)
       IN  /\ statements' = Append(statements, r.stmt)
           /\ current_index' = r.index
    /\ UNCHANGED << lexerVars, program, execVars, exception, pc >>

ParseIn ==
    /\ AtToken("IN")
    /\ LET r == parse_in_statement(tokens, current_index)
       IN  /\ r.thrown = "none"
           /\ statements' = Append(statements, r.stmt)
           /\ current_index' = r.index
    /\ UNCHANGED << lexerVars, program, execVars, exception, pc >>

ParseInThrow ==
    /\ AtToken("IN")
    /\ LET r == parse_in_statement(tokens, current_index)
       IN  /\ r.thrown # "none"
           /\ current_index' = r.index
           /\ ParseThrow(r.thrown)
    /\ UNCHANGED << lexerVars, execVars >>

ParseSkip ==
    /\ pc = "parse"
    /\ current_index < Len(tokens)
    /\ tokens[current_index + 1].type \notin {"OUT", "IN"}
    /\ current_index' = current_index + 1
    /\ UNCHANGED << lexerVars, statements, program, execVars, exception, pc >>

\* parse returns; main calls interpreter.execute(program)
ParseReturn ==
    /\ pc = "parse"
    /\ current_index >= Len(tokens)
    /\ program' = statements
    /\ variables' = EmptyMap
    /\ ip' = 0
    /\ pc' = "execute"
    /\ UNCHANGED << lexerVars, parserVars, input_str, lines_read, cout, cerr, exception >>

----------------------------------------------------------------------------
(* Interpreter::execute *)

AtStatement(kind) ==
    /\ pc = "execute"
    /\ ip < Len(program)
    /\ program[ip + 1].kind = kind

ExecOut ==
    /\ AtStatement("out")
    /\ LET r == OutStatementExecute(program[ip + 1], variables)
       IN  /\ cout' = cout \o r.lines
           /\ variables' = r.variables
    /\ ip' = ip + 1
    /\ UNCHANGED << lexerVars, parserVars, program, input_str, lines_read, cerr,
                    exception, pc >>

ExecIn ==
    /\ AtStatement("in")
    /\ \E g \in GetlineOutcomes :
        LET r == InStatementExecute(program[ip + 1], variables, g.line)
        IN  /\ r.thrown = "none"
            /\ input_str' = g.line
            /\ lines_read' = IF g.eof THEN lines_read ELSE lines_read + 1
            /\ variables' = r.variables
            /\ cerr' = cerr \o r.cerr
    /\ ip' = ip + 1
    /\ UNCHANGED << lexerVars, parserVars, program, cout, exception, pc >>

\* std::out_of_range leaves InStatement::execute, execute and main
ExecInThrow ==
    /\ AtStatement("in")
    /\ \E g \in GetlineOutcomes :
        LET r == InStatementExecute(program[ip + 1], variables, g.line)
        IN  /\ r.thrown # "none"
            /\ input_str' = g.line
            /\ lines_read' = IF g.eof THEN lines_read ELSE lines_read + 1
            /\ variables' = r.variables
            /\ cerr' = cerr \o r.cerr
            /\ exception' = r.thrown
    /\ pc' = "terminated"
    /\ UNCHANGED << lexerVars, parserVars, program, ip, cout >>

\* the for loop of execute ends; main returns 0
ExecReturn ==
    /\ pc = "execute"
    /\ ip >= Len(program)
    /\ pc' = "done"
    /\ UNCHANGED << lexerVars, parserVars, program, execVars, exception >>

----------------------------------------------------------------------------
(* Specifications *)

\* main: tokenize, then parse, then execute
Next ==
    \/ LexToken \/ LexThrow \/ LexReturn
    \/ ParseOut \/ ParseIn \/ ParseInThrow \/ ParseSkip \/ ParseReturn
    \/ ExecOut \/ ExecIn \/ ExecInThrow \/ ExecReturn

Spec == Init /\ [][Next]_vars

\* Lexer::tokenize on its own, over every source text
NextLex == LexToken \/ LexThrow \/ LexReturn

SpecLex == InitLex /\ [][NextLex]_vars

\* Parser::parse on its own, over every token sequence
NextParse == ParseOut \/ ParseIn \/ ParseInThrow \/ ParseSkip \/ ParseReturn

SpecParse == InitParse /\ [][NextParse]_vars

\* Interpreter::execute on its own, over every statement list
NextExec == ExecOut \/ ExecIn \/ ExecInThrow \/ ExecReturn

SpecExec == InitExec /\ [][NextExec]_vars

\* tokenize is a loop with no blocking call: it keeps taking steps
SpecLexFair == InitLexFair /\ [][NextLex]_vars /\ WF_vars(NextLex)

\* parse is a loop with no blocking call: it keeps taking steps
SpecParseFair == SpecParse /\ WF_vars(NextParse)

----------------------------------------------------------------------------
(* Claims about Parser::parse *)

TypeAt(i) == IF i < Len(tokens) THEN tokens[i + 1].type ELSE "none"

MalformedIn ==
    /\ AtToken("IN")
    /\ \/ TypeAt(current_index + 1) # "LESS_THAN"
       \/ TypeAt(current_index + 2) # "VAR_NAME"

\* C1: when parse is at a keyword-in at a statement start and the next token
\* is not << (or is missing), or the token after the << is not an identifier
\* (or is missing), parse throws "Invalid 'in' statement", main's program is
\* never assigned, and parsing does not carry on.
C1_MalformedInFails ==
    [][MalformedIn =>
          /\ exception' = "Invalid 'in' statement"
          /\ pc' = "terminated"
          /\ program' = <<>>
          /\ statements' = <<>>]_vars

\* parse has thrown on an in whose << is there but whose identifier is not,
\* after it had parsed an out statement
C1_Witness ==
    /\ exception = "Invalid 'in' statement"
    /\ pc = "terminated"
    /\ Len(tokens) >= 3
    /\ tokens[1].type = "OUT"
    /\ \E i \in 2..(Len(tokens) - 1) :
          /\ tokens[i].type = "IN"
          /\ tokens[i + 1].type = "LESS_THAN"
          /\ current_index = i + 1

RunTypes == {"GREATER_THAN", "STRING_LITERAL", "VAR_NAME"}

\* the index (0-based) just past the maximal run of RunTypes tokens that
\* starts at index i
RunEnd(i) ==
    CHOOSE j \in i..Len(tokens) :
        /\ \A k \in i..(j - 1) : TypeAt(k) \in RunTypes
        /\ TypeAt(j) \notin RunTypes

IsTarget(t) == t.type \in {"STRING_LITERAL", "VAR_NAME"}

\* the payloads of the string-literal and identifier tokens at indices i..j-1
RunTargets(i, j) ==
    LET run == SelectSeq(SubSeq(tokens, i + 1, j), IsTarget)
    IN  [k \in DOMAIN run |-> run[k].value]

NoKeywordIn == \A i \in DOMAIN tokens : tokens[i].type # "IN"

ParseStepOK ==
    /\ current_index' > current_index
    /\ current_index' <= Len(tokens)
    /\ AtToken("OUT") =>
          LET j == RunEnd(current_index + 1)
          IN  /\ statements' = Append(statements, OutStatement(RunTargets(current_index + 1, j)))
              /\ current_index' = IF TypeAt(j) = "STOP" THEN j + 1 ELSE j
              /\ exception' = "none"
    /\ (AtToken("IN") /\ ~MalformedIn) =>
          /\ statements' = Append(statements, InStatement(tokens[current_index + 3].value))
          /\ current_index' = current_index + 3
          /\ exception' = "none"
    /\ (~AtToken("OUT") /\ ~AtToken("IN")) =>
          /\ statements' = statements
          /\ current_index' = current_index + 1
          /\ exception' = "none"

\* C8: every step of parse moves the cursor forward and never past the end,
\* so parse ends; it never throws on a token sequence with no keyword-in; a
\* keyword-out or a well-formed keyword-in at a statement start appends one
\* statement, any other token is skipped and appends nothing; an
\* OutStatement's targets are the payloads, in order, of the string-literal
\* and identifier tokens of the maximal run of >>, string-literal and
\* identifier tokens after its out, and one directly following stop is
\* consumed; the statement list parse returns is the one it built.
C8_LenientSinglePass ==
    /\ [][(pc = "parse" /\ current_index < Len(tokens)) => ParseStepOK]_vars
    /\ [][(pc = "parse" /\ current_index >= Len(tokens)) =>
             (pc' = "execute" /\ program' = statements)]_vars
    /\ [](NoKeywordIn => exception = "none")
    /\ <>(pc # "parse")

\* parse has skipped a stray terminator and returned one out statement with
\* a target, whose stop it consumed
C8_Witness ==
    /\ pc = "execute"
    /\ exception = "none"
    /\ Len(tokens) = 4
    /\ tokens[1].type = "END_STATEMENT"
    /\ tokens[2].type = "OUT"
    /\ tokens[4].type = "STOP"
    /\ Len(program) = 1
    /\ Len(program[1].output_targets) = 1

----------------------------------------------------------------------------
(* Claims about Interpreter::execute and the statements *)

\* C2: execute never fails: whatever the statements and the input lines, no
\* exception leaves it, and when it has finished it has run every statement.
C2_ExecuteNeverFails ==
    /\ exception = "none"
    /\ pc \in {"execute", "done"}
    /\ pc = "done" => ip = Len(program)

\* a line that is wholly a base-10 integer: an optional sign, then digits only
IsWholeInteger(line) ==
    LET body == IF line # <<>> /\ Head(line) \in {"+", "-"} THEN Tail(line) ELSE line
    IN  body # <<>> /\ \A i \in DOMAIN body : body[i] \in Digits

RECURSIVE StripZeros(_)
StripZeros(ds) ==
    IF Len(ds) > 1 /\ Head(ds) = "0" THEN StripZeros(Tail(ds)) ELSE ds

\* the canonical decimal text of a whole integer, worked out on its text
Canonical(line) ==
    LET neg == Head(line) = "-"
        body == StripZeros(IF Head(line) \in {"+", "-"} THEN Tail(line) ELSE line)
    IN  IF neg /\ body # <<"0">> THEN <<"-">> \o body ELSE body

\* C3: InStatement::execute reads one line and binds its variable: to the
\* canonical decimal text of the line, with no diagnostic, when the line is
\* a base-10 integer; to "0", with exactly one diagnostic line on the error
\* stream, when it is not; the variable is bound afterwards either way.
C3_InBindsVariable ==
    [][AtStatement("in") =>
          LET v == program[ip + 1].var_name
              line == input_str'
          IN  /\ lines_read' <= lines_read + 1
              /\ v \in DOMAIN variables'
              /\ IsWholeInteger(line) =>
                    (variables'[v] = Canonical(line) /\ cerr' = cerr)
              /\ ~IsWholeInteger(line) =>
                    (variables'[v] = <<"0">> /\ cerr' = Append(cerr, Diagnostic))]_vars

\* what target stands for when an out statement runs under map m
Resolve(target, m) == IF target \in DOMAIN m THEN m[target] ELSE target

C5_NoPartialExecution ==
    exception \in {"Unknown token encountered", "Invalid 'in' statement"} =>
        /\ cout = <<>>
        /\ cerr = <<>>
        /\ lines_read = 0
        /\ DOMAIN variables = {}
        /\ ip = 0

\* parse has thrown on a malformed in that follows a well-formed out
\* statement with a target
C5_Witness ==
    /\ exception = "Invalid 'in' statement"
    /\ Len(tokens) >= 4
    /\ tokens[1].type = "OUT"
    /\ tokens[3].type = "STRING_LITERAL"
    /\ current_index >= 5

\* the names of the in statements execute has run so far
ExecutedIns ==
    { program[k].var_name : k \in { j \in 1..ip : program[j].kind = "in" } }

\* C9: the map is empty when execute starts; an OutStatement leaves it as it
\* is, also when a target is not bound; an InStatement changes at most the
\* binding of its own variable; so the map's keys are always among the names
\* of the in statements run so far.
C9_OnlyInMutates ==
    /\ []((pc = "execute" /\ ip = 0) => variables = EmptyMap)
    /\ [](DOMAIN variables \subseteq ExecutedIns)
    /\ [][AtStatement("out") => variables' = variables]_vars
    /\ [][AtStatement("in") =>
            LET v == program[ip + 1].var_name
            IN  /\ DOMAIN variables' \ {v} = DOMAIN variables \ {v}
                /\ \A k \in DOMAIN variables \ {v} : variables'[k] = variables[k]]_vars

\* an out statement with an unbound target has just run after an in
\* statement bound a variable
C9_Witness ==
    /\ pc = "execute"
    /\ ip >= 2
    /\ program[ip].kind = "out"
    /\ \E i \in DOMAIN program[ip].output_targets :
          program[ip].output_targets[i] \notin DOMAIN variables
    /\ DOMAIN variables # {}

----------------------------------------------------------------------------
(* Claims about Lexer::tokenize *)

QuotePositions == { i \in DOMAIN input : input[i] = "\"" }

LastQuote == CHOOSE i \in QuotePositions : \A j \in QuotePositions : j <= i

\* every quote of a source that tokenize accepts opens or closes a literal,
\* so the last one is an opening quote with no closing quote exactly when
\* their number is odd
UnterminatedQuote == Cardinality(QuotePositions) % 2 = 1

\* C6: every call of next_token moves pos forward, and pos never passes the
\* end of the input by more than one, so tokenize ends on every source; when
\* the source has an opening quote with no closing quote and tokenize
\* returns, its last token is a string literal whose payload is the text
\* from after that quote to the end of the input.
C6_TokenizeTerminates ==
    /\ [][(pc = "tokenize" /\ pos < Len(input)) => pos' > pos]_vars
    /\ [](pos <= Len(input) + 1)
    /\ []((pc = "parse" /\ UnterminatedQuote) =>
             /\ tokens # <<>>
             /\ tokens[Len(tokens)] =
                   Token("STRING_LITERAL", SubSeq(input, LastQuote + 1, Len(input))))
    /\ <>(pc # "tokenize")

\* tokenize has returned from a source whose last literal is not closed and
\* not empty, after other tokens
C6_Witness ==
    /\ pc = "parse"
    /\ UnterminatedQuote
    /\ LastQuote < Len(input)
    /\ Len(tokens) >= 2
    /\ pos = Len(input) + 1

Spaced(ls) == Flatten([i \in DOMAIN ls |-> <<" ">> \o ls[i]])

\* C7 as stated: when tokenize returns tokens T for a source, tokenizing the
\* concatenation of the lexemes of T succeeds and yields T again.
C7_RoundTripConcatenated ==
    pc = "parse" =>
        LET r == tokenize(Flatten(lexemes))
        IN  r.ok /\ r.tokens = tokens

\* C7, amended: when tokenize returns tokens T for a source, tokenizing the
\* lexemes of T written one after the other, each preceded by one space,
\* succeeds and yields T again (same types and payloads, in the same order).
C7_RoundTripSpaced ==
    pc = "parse" =>
        LET r == tokenize(Spaced(lexemes))
        IN  r.ok /\ r.tokens = tokens

\* tokenize has returned two identifiers in a row, which only whitespace
\* keeps apart, and a string literal
C7_Witness ==
    /\ pc = "parse"
    /\ \E i \in 1..(Len(tokens) - 1) :
          tokens[i].type = "VAR_NAME" /\ tokens[i + 1].type = "VAR_NAME"
    /\ \E i \in DOMAIN tokens : tokens[i].type = "STRING_LITERAL"

HasPrefix(s, pre) == SubSeq(s, 1, Min(Len(pre), Len(s))) = pre

\* C10: tokenize never produces a keyword-int token; where the text "int"
\* is at a token start, the token is keyword-in and the scan goes on at the
\* "t"; and no identifier token has a payload that begins with "out", "in"
\* or "stop".
C10_NoIntKeyword ==
    /\ [](\A i \in DOMAIN tokens :
             /\ tokens[i].type # "INT_KEYWORD"
             /\ tokens[i].type = "VAR_NAME" =>
                   /\ ~HasPrefix(tokens[i].value, <<"o","u","t">>)
                   /\ ~HasPrefix(tokens[i].value, <<"i","n">>)
                   /\ ~HasPrefix(tokens[i].value, <<"s","t","o","p">>))
    /\ [][(/\ pc = "tokenize"
           /\ pos < Len(input)
           /\ substr(input, skip_whitespace(input, pos), 3) = <<"i","n","t">>) =>
             /\ tokens' = Append(tokens, Token("IN", <<"i","n">>))
             /\ pos' = skip_whitespace(input, pos) + 2
             /\ input[pos' + 1] = "t"]_vars

\* tokenize has returned from a source that spells "int" followed by more
\* letters: a keyword-in and right after it an identifier beginning with "t"
C10_Witness ==
    /\ pc = "parse"
    /\ \E i \in 1..(Len(tokens) - 1) :
          /\ tokens[i].type = "IN"
          /\ tokens[i + 1].type = "VAR_NAME"
          /\ Len(tokens[i + 1].value) >= 2
          /\ Head(tokens[i + 1].value) = "t"
    /\ Flatten(lexemes) = input

====
